---- MODULE Spec2Model ----
(***************************************************************************)
(* Model of frostgate-sdk's message types (src/src/messages/mod.rs):       *)
(* ChainId and its numeric conversions, FrostMessage and its constructor,  *)
(* the CrossChainMessage accessors, MessageEvent, and the serde            *)
(* serialization the derives generate, over the JSON data format the       *)
(* crate's test uses (serde_json::to_string / from_str).                   *)
(*                                                                         *)
(* Representation.  Option<T> is a sequence of length 0 (None) or 1        *)
(* (Some).  u64 and u128 do not fit TLC's 32-bit integers, so a number    *)
(* is a sequence of 16-bit limbs, most significant first: 4 limbs for u64, *)
(* 8 for u128.  A byte is an integer 0..255.  Text is a sequence of        *)
(* one-character strings.                                                  *)
(***************************************************************************)
EXTENDS Integers, Sequences, FiniteSets, TLC

VARIABLES
    msg,        \* Option<FrostMessage>: the envelope the pipeline owns
    event,      \* Option<MessageEvent>: the event the envelope was moved into
    call,       \* [op, arg, out]: the last call made on them and what it returned
    cin,        \* Option<ChainId>: argument of the last to_u64 call
    cnum,       \* Option<u64>: result of the last to_u64 call
    vin,        \* Option<u64>: argument of the last try_from call
    vres        \* Option<Result<ChainId, ()>>: result of the last try_from call

vars == <<msg, event, call, cin, cnum, vin, vres>>
msgVars == <<msg, event, call>>
chainVars == <<cin, cnum, vin, vres>>

None == <<>>
Some(x) == <<x>>
Ok(x) == [ok |-> TRUE, val |-> x]
Err(e) == [ok |-> FALSE, val |-> e]

(***************************************************************************)
(* Numbers as limbs.                                                       *)
(***************************************************************************)
LimbBase == 2^16
U64Limbs == 64 \div 16
U128Limbs == 128 \div 16

Zeros(n) == [i \in 1..n |-> 0]
IsZero(limbs) == \A i \in 1..Len(limbs) : limbs[i] = 0

\* A small value as n limbs.
Small(k, n) == [i \in 1..n |-> IF i = n THEN k ELSE 0]

U64_MAX == [i \in 1..U64Limbs |-> LimbBase - 1]
U128_MAX == [i \in 1..U128Limbs |-> LimbBase - 1]

(***************************************************************************)
(* Decimal text of a number (what the JSON writer emits for an integer)    *)
(* and its parse (what the JSON reader accepts for an unsigned integer of  *)
(* a given width).  Digits are integers 0..9, most significant first.      *)
(***************************************************************************)
RECURSIVE DivRem(_, _)
DivRem(limbs, d) ==
    IF Len(limbs) = 0 THEN [q |-> <<>>, r |-> 0]
    ELSE LET n == Len(limbs)
             p == DivRem(SubSeq(limbs, 1, n - 1), d)
             cur == p.r * LimbBase + limbs[n]
         IN [q |-> Append(p.q, cur \div d), r |-> cur % d]

\* Digits are produced four at a time, as the formatter does.
Chunk == 10000

Pad4(k) == <<k \div 1000, (k \div 100) % 10, (k \div 10) % 10, k % 10>>

LeadDigits(k) ==
    IF k < 10 THEN <<k>>
    ELSE IF k < 100 THEN <<k \div 10, k % 10>>
    ELSE IF k < 1000 THEN <<k \div 100, (k \div 10) % 10, k % 10>>
    ELSE Pad4(k)

RECURSIVE DigitsOf(_)
DigitsOf(limbs) ==
    LET s == DivRem(limbs, Chunk)
    IN IF IsZero(s.q) THEN LeadDigits(s.r) ELSE DigitsOf(s.q) \o Pad4(s.r)

Itoa(limbs) == DigitsOf(limbs)

RECURSIVE MulAdd(_, _, _)
MulAdd(limbs, m, a) ==
    IF Len(limbs) = 0 THEN [v |-> <<>>, carry |-> a]
    ELSE LET n == Len(limbs)
             cur == limbs[n] * m + a
             rest == MulAdd(SubSeq(limbs, 1, n - 1), m, cur \div LimbBase)
         IN [v |-> Append(rest.v, cur % LimbBase), carry |-> rest.carry]

\* The value of at most four digits.
ChunkVal(ds) ==
    LET L == Len(ds)
    IN (IF L >= 1 THEN ds[L] ELSE 0) + (IF L >= 2 THEN 10 * ds[L - 1] ELSE 0)
         + (IF L >= 3 THEN 100 * ds[L - 2] ELSE 0)
         + (IF L >= 4 THEN 1000 * ds[L - 3] ELSE 0)

RECURSIVE ParseDigits(_, _)
ParseDigits(digits, n) ==
    IF Len(digits) <= 4 THEN Ok(Small(ChunkVal(digits), n))
    ELSE LET k == Len(digits)
             p == ParseDigits(SubSeq(digits, 1, k - 4), n)
         IN IF ~p.ok THEN p
            ELSE LET s == MulAdd(p.val, Chunk, ChunkVal(SubSeq(digits, k - 3, k)))
                 IN IF s.carry # 0 THEN Err("number out of range") ELSE Ok(s.v)

\* An unsigned integer of n limbs from its decimal text.
ParseUnsigned(digits, n) ==
    IF Len(digits) = 0 THEN Err("expected value") ELSE ParseDigits(digits, n)

(***************************************************************************)
(* ChainId (the enum, its to_u64 and its TryFrom<u64>).                    *)
(***************************************************************************)
ChainId == {"Ethereum", "Polkadot", "Solana", "Unknown"}

to_u64_swapped(c) ==
    CASE c = "Ethereum" -> Small(0, U64Limbs)
      [] c = "Polkadot" -> Small(2, U64Limbs)
      [] c = "Solana"   -> Small(1, U64Limbs)
      [] c = "Unknown"  -> U64_MAX

to_u64_unknown3(c) ==
    CASE c = "Ethereum" -> Small(0, U64Limbs)
      [] c = "Polkadot" -> Small(1, U64Limbs)
      [] c = "Solana"   -> Small(2, U64Limbs)
      [] c = "Unknown"  -> Small(3, U64Limbs)

to_u64(c) ==
    CASE c = "Ethereum" -> Small(0, U64Limbs)
      [] c = "Polkadot" -> Small(1, U64Limbs)
      [] c = "Solana"   -> Small(2, U64Limbs)
      [] c = "Unknown"  -> U64_MAX

\* A decoder that looks at the low 16 bits only and rejects what it does not know.
try_from_strict(value) ==
    CASE value[U64Limbs] = 0 -> Ok("Ethereum")
      [] value[U64Limbs] = 1 -> Ok("Polkadot")
      [] value[U64Limbs] = 2 -> Ok("Solana")
      [] OTHER -> Err("unit")

try_from(value) ==
    CASE value = Small(0, U64Limbs) -> Ok("Ethereum")
      [] value = Small(1, U64Limbs) -> Ok("Polkadot")
      [] value = Small(2, U64Limbs) -> Ok("Solana")
      [] OTHER -> Ok("Unknown")

(***************************************************************************)
(* Uuid: 16 bytes.  Uuid::new_v4 takes 16 random bytes and stamps the      *)
(* version (4) and the RFC 4122 variant on them.  Its text form is the     *)
(* hyphenated lower-case hex 8-4-4-4-12; parse_str also reads the form     *)
(* without hyphens, and upper-case digits.                                 *)
(***************************************************************************)
UuidLen == 128 \div 8

Uuid_new_v4(rb) ==
    [rb EXCEPT ![7] = (rb[7] % 16) + 64, ![9] = (rb[9] % 64) + 128]

NilUuid == [i \in 1..UuidLen |-> 0]

HexChars == <<"0","1","2","3","4","5","6","7","8","9","a","b","c","d","e","f">>
UpperHex == <<"A","B","C","D","E","F">>

ByteHex(b) == <<HexChars[(b \div 16) + 1], HexChars[(b % 16) + 1]>>

RECURSIVE HexOf(_)
HexOf(bs) == IF Len(bs) = 0 THEN <<>> ELSE ByteHex(Head(bs)) \o HexOf(Tail(bs))

Hyphenated(id) ==
    HexOf(SubSeq(id, 1, 4)) \o <<"-">> \o HexOf(SubSeq(id, 5, 6)) \o <<"-">>
      \o HexOf(SubSeq(id, 7, 8)) \o <<"-">> \o HexOf(SubSeq(id, 9, 10)) \o <<"-">>
      \o HexOf(SubSeq(id, 11, 16))

HexVal(ch) ==
    IF \E i \in 1..16 : HexChars[i] = ch
    THEN (CHOOSE i \in 1..16 : HexChars[i] = ch) - 1
    ELSE IF \E i \in 1..6 : UpperHex[i] = ch
    THEN (CHOOSE i \in 1..6 : UpperHex[i] = ch) + 9
    ELSE -1

NotHyphen(ch) == ch # "-"
HyphenAt == {9, 14, 19, 24}

parse_str(text) ==
    LET digits == IF Len(text) = 36 /\ \A i \in HyphenAt : text[i] = "-"
                  THEN SelectSeq(text, NotHyphen)
                  ELSE text
    IN IF Len(digits) # 2 * UuidLen \/ \E i \in 1..Len(digits) : HexVal(digits[i]) < 0
       THEN Err("invalid uuid")
       ELSE Ok([i \in 1..UuidLen |->
                   HexVal(digits[2 * i - 1]) * 16 + HexVal(digits[2 * i])])

(***************************************************************************)
(* JSON values.  A value is [t, v]: null, a number (its decimal digits), a *)
(* string (its characters), an array, a struct object (a function from     *)
(* field names to values), a map object (its entries, in the order         *)
(* written) and the value the proof engine's ProofMetadata writes, which   *)
(* this crate does not define and the model leaves opaque.                 *)
(***************************************************************************)
JNull == [t |-> "null", v |-> <<>>]
JNum(digits) == [t |-> "num", v |-> digits]
JStr(chars) == [t |-> "str", v |-> chars]
JArr(items) == [t |-> "arr", v |-> items]
JObj(fields) == [t |-> "obj", v |-> fields]
JMap(entries) == [t |-> "map", v |-> entries]
JExt(x) == [t |-> "ext", v |-> x]

(***************************************************************************)
(* Serialize, as derived.                                                  *)
(***************************************************************************)
VariantName(c) ==
    CASE c = "Ethereum" -> <<"E","t","h","e","r","e","u","m">>
      [] c = "Polkadot" -> <<"P","o","l","k","a","d","o","t">>
      [] c = "Solana"   -> <<"S","o","l","a","n","a">>
      [] c = "Unknown"  -> <<"U","n","k","n","o","w","n">>

SerChainId(c) == JStr(VariantName(c))
SerUnsigned(x) == JNum(Itoa(x))
SerBytes(bs) == JArr([i \in 1..Len(bs) |-> JNum(Itoa(<<bs[i]>>))])
SerUuid(id) == JStr(Hyphenated(id))
SerProof(p) == JObj([data |-> SerBytes(p.data), metadata |-> JExt(p.metadata)])

\* A HashMap is written entry by entry in its iteration order, which is any
\* order of its keys: order is one of them.
SerMap(m, order) == JMap([i \in 1..Len(order) |-> <<JStr(order[i]), JStr(m[order[i]])>>])

Orderings(S) ==
    {o \in [1..Cardinality(S) -> S] : \A i, j \in 1..Cardinality(S) : o[i] = o[j] => i = j}

MapOrders(metadata) == IF metadata = None THEN {<<>>} ELSE Orderings(DOMAIN metadata[1])

SerFrostMessage(m, order) ==
    JObj([id         |-> SerUuid(m.id),
          from_chain |-> SerChainId(m.from_chain),
          to_chain   |-> SerChainId(m.to_chain),
          payload    |-> SerBytes(m.payload),
          proof      |-> IF m.proof = None THEN JNull ELSE SerProof(m.proof[1]),
          timestamp  |-> SerUnsigned(m.timestamp),
          nonce      |-> SerUnsigned(m.nonce),
          signature  |-> IF m.signature = None THEN JNull ELSE SerBytes(m.signature[1]),
          fee        |-> IF m.fee = None THEN JNull ELSE SerUnsigned(m.fee[1]),
          metadata   |-> IF m.metadata = None THEN JNull ELSE SerMap(m.metadata[1], order)])

SerMessageEvent(e, order) ==
    JObj([message      |-> SerFrostMessage(e.message, order),
          tx_hash      |-> IF e.tx_hash = None THEN JNull ELSE SerBytes(e.tx_hash[1]),
          block_number |-> IF e.block_number = None THEN JNull
                           ELSE SerUnsigned(e.block_number[1])])

(***************************************************************************)
(* Deserialize, as derived, from a JSON value.                             *)
(***************************************************************************)
InvalidType == Err("invalid type")

\* An enum is read from a string (the variant's name); serde_json accepts
\* nothing else for a unit variant.  #[serde(other)] on Unknown takes every
\* name that is not one of the others.
DeChainId(j) ==
    IF j.t # "str" THEN Err("expected value")
    ELSE CASE j.v = VariantName("Ethereum") -> Ok("Ethereum")
           [] j.v = VariantName("Polkadot") -> Ok("Polkadot")
           [] j.v = VariantName("Solana")   -> Ok("Solana")
           [] OTHER -> Ok("Unknown")

DeUnsigned(j, n) == IF j.t # "num" THEN InvalidType ELSE ParseUnsigned(j.v, n)

DeU64(j) == DeUnsigned(j, U64Limbs)
DeU128(j) == DeUnsigned(j, U128Limbs)

DeU8(j) ==
    LET r == DeU64(j)
    IN IF ~r.ok THEN r
       ELSE IF \E i \in 1..(U64Limbs - 1) : r.val[i] # 0 THEN Err("invalid value")
       ELSE IF r.val[U64Limbs] > 255 THEN Err("invalid value")
       ELSE Ok(r.val[U64Limbs])

DeBytes(j) ==
    IF j.t # "arr" THEN InvalidType
    ELSE IF \E i \in 1..Len(j.v) : ~DeU8(j.v[i]).ok THEN Err("invalid value")
    ELSE Ok([i \in 1..Len(j.v) |-> DeU8(j.v[i]).val])

DeString(j) == IF j.t # "str" THEN InvalidType ELSE Ok(j.v)

DeUuid(j) == IF j.t # "str" THEN InvalidType ELSE parse_str(j.v)

DeProofMetadata(j) == IF j.t # "ext" THEN InvalidType ELSE Ok(j.v)

\* Entries are inserted in the order read: a later entry of a key replaces
\* an earlier one.
DeMap(j) ==
    IF j.t # "map" THEN InvalidType
    ELSE IF \E i \in 1..Len(j.v) : ~DeString(j.v[i][1]).ok \/ ~DeString(j.v[i][2]).ok
    THEN InvalidType
    ELSE LET keys == {j.v[i][1].v : i \in 1..Len(j.v)}
             last(k) == CHOOSE i \in 1..Len(j.v) :
                            /\ j.v[i][1].v = k
                            /\ \A i2 \in 1..Len(j.v) : j.v[i2][1].v = k => i2 <= i
         IN Ok([k \in keys |-> j.v[last(k)][2].v])

Has(j, f) == f \in DOMAIN j.v
MissingField == Err("missing field")

DeProof(j) ==
    IF j.t # "obj" THEN InvalidType
    ELSE IF ~Has(j, "data") \/ ~Has(j, "metadata") THEN MissingField
    ELSE LET d == DeBytes(j.v.data)
             md == DeProofMetadata(j.v.metadata)
         IN IF ~d.ok THEN d
            ELSE IF ~md.ok THEN md
            ELSE Ok([data |-> d.val, metadata |-> md.val])

\* Option<T>: a missing field and null are None, anything else is Some of
\* what T reads.
OptProof(j, f) ==
    IF ~Has(j, f) \/ j.v[f].t = "null" THEN Ok(None)
    ELSE LET r == DeProof(j.v[f]) IN IF r.ok THEN Ok(Some(r.val)) ELSE r

\* A reader that defaults a missing or null byte sequence to the empty one.
OptBytes_default(j, f) ==
    IF ~Has(j, f) \/ j.v[f].t = "null" THEN Ok(Some(<<>>))
    ELSE LET r == DeBytes(j.v[f]) IN IF r.ok THEN Ok(Some(r.val)) ELSE r

OptBytes(j, f) ==
    IF ~Has(j, f) \/ j.v[f].t = "null" THEN Ok(None)
    ELSE LET r == DeBytes(j.v[f]) IN IF r.ok THEN Ok(Some(r.val)) ELSE r

\* A reader that takes the fee for an Option<u64>.
OptU128_narrow(j, f) ==
    IF ~Has(j, f) \/ j.v[f].t = "null" THEN Ok(None)
    ELSE LET r == DeU64(j.v[f]) IN IF r.ok THEN Ok(Some(r.val)) ELSE r

OptU128(j, f) ==
    IF ~Has(j, f) \/ j.v[f].t = "null" THEN Ok(None)
    ELSE LET r == DeU128(j.v[f]) IN IF r.ok THEN Ok(Some(r.val)) ELSE r

OptU64(j, f) ==
    IF ~Has(j, f) \/ j.v[f].t = "null" THEN Ok(None)
    ELSE LET r == DeU64(j.v[f]) IN IF r.ok THEN Ok(Some(r.val)) ELSE r

OptMap(j, f) ==
    IF ~Has(j, f) \/ j.v[f].t = "null" THEN Ok(None)
    ELSE LET r == DeMap(j.v[f]) IN IF r.ok THEN Ok(Some(r.val)) ELSE r

RequiredFields == {"id", "from_chain", "to_chain", "payload", "timestamp", "nonce"}

DeFrostMessage(j) ==
    IF j.t # "obj" THEN InvalidType
    ELSE IF \E f \in RequiredFields : ~Has(j, f) THEN MissingField
    ELSE LET id == DeUuid(j.v.id)
             fc == DeChainId(j.v.from_chain)
             tc == DeChainId(j.v.to_chain)
             pl == DeBytes(j.v.payload)
             pr == OptProof(j, "proof")
             ts == DeU64(j.v.timestamp)
             nc == DeU64(j.v.nonce)
             sg == OptBytes(j, "signature")
             fe == OptU128(j, "fee")
             md == OptMap(j, "metadata")
         IN IF ~id.ok THEN id
            ELSE IF ~fc.ok THEN fc
            ELSE IF ~tc.ok THEN tc
            ELSE IF ~pl.ok THEN pl
            ELSE IF ~pr.ok THEN pr
            ELSE IF ~ts.ok THEN ts
            ELSE IF ~nc.ok THEN nc
            ELSE IF ~sg.ok THEN sg
            ELSE IF ~fe.ok THEN fe
            ELSE IF ~md.ok THEN md
            ELSE Ok([id |-> id.val, from_chain |-> fc.val, to_chain |-> tc.val,
                     payload |-> pl.val, proof |-> pr.val, timestamp |-> ts.val,
                     nonce |-> nc.val, signature |-> sg.val, fee |-> fe.val,
                     metadata |-> md.val])

DeMessageEvent(j) ==
    IF j.t # "obj" THEN InvalidType
    ELSE IF ~Has(j, "message") THEN MissingField
    ELSE LET m == DeFrostMessage(j.v.message)
             tx == OptBytes(j, "tx_hash")
             bn == OptU64(j, "block_number")
         IN IF ~m.ok THEN m
            ELSE IF ~tx.ok THEN tx
            ELSE IF ~bn.ok THEN bn
            ELSE Ok([message |-> m.val, tx_hash |-> tx.val, block_number |-> bn.val])

(***************************************************************************)
(* The numeric conversions, called on their own.                           *)
(***************************************************************************)
LimbSamples == {0, 1, 2, 3, LimbBase - 1}
U64Values == [1..U64Limbs -> LimbSamples]

CallToU64(c) ==
    /\ cin' = Some(c)
    /\ cnum' = Some(to_u64(c))
    /\ vin' = None
    /\ vres' = None
    /\ UNCHANGED msgVars

\* ChainId::try_from(c.to_u64()): the number just produced is decoded.
CallTryFromEncoded ==
    /\ cnum # None
    /\ vin' = cnum
    /\ vres' = Some(try_from(cnum[1]))
    /\ UNCHANGED <<cin, cnum>>
    /\ UNCHANGED msgVars

CallTryFrom(v) ==
    /\ cin' = None
    /\ cnum' = None
    /\ vin' = Some(v)
    /\ vres' = Some(try_from(v))
    /\ UNCHANGED msgVars

InitChain ==
    /\ cin = None /\ cnum = None /\ vin = None /\ vres = None

NoCall == [op |-> "none", arg |-> None, out |-> None]

InitMsg ==
    /\ msg = None /\ event = None /\ call = NoCall

Init == InitMsg /\ InitChain

NextChain ==
    \/ \E c \in ChainId : CallToU64(c)
    \/ CallTryFromEncoded
    \/ \E v \in U64Values : CallTryFrom(v)

SpecChain == Init /\ [][NextChain]_vars

(***************************************************************************)
(* FrostMessage, its constructor, the writes to its public optional        *)
(* fields, the CrossChainMessage accessors, Clone, and MessageEvent.       *)
(***************************************************************************)
\* A constructor that takes nonce and timestamp, both u64, for one another.
FrostMessage_new_swapped(from_chain, to_chain, payload, nonce, timestamp, rb) ==
    [id         |-> Uuid_new_v4(rb),
     from_chain |-> from_chain,
     to_chain   |-> to_chain,
     payload    |-> payload,
     proof      |-> None,
     timestamp  |-> nonce,
     nonce      |-> timestamp,
     signature  |-> None,
     fee        |-> None,
     metadata   |-> None]

FrostMessage_new(from_chain, to_chain, payload, nonce, timestamp, rb) ==
    [id         |-> Uuid_new_v4(rb),
     from_chain |-> from_chain,
     to_chain   |-> to_chain,
     payload    |-> payload,
     proof      |-> None,
     timestamp  |-> timestamp,
     nonce      |-> nonce,
     signature  |-> None,
     fee        |-> None,
     metadata   |-> None]

New(from_chain, to_chain, payload, nonce, timestamp, rb) ==
    /\ msg = None
    /\ event = None
    /\ msg' = Some(FrostMessage_new(from_chain, to_chain, payload, nonce, timestamp, rb))
    /\ call' = [op |-> "new",
                arg |-> <<from_chain, to_chain, payload, nonce, timestamp>>,
                out |-> None]
    /\ UNCHANGED event
    /\ UNCHANGED chainVars

\* msg.proof = Some(p); out records the value the write replaced.
AttachProof(p) ==
    /\ msg # None
    /\ msg' = Some([msg[1] EXCEPT !.proof = Some(p)])
    /\ call' = [op |-> "set_proof", arg |-> p, out |-> msg[1].proof]
    /\ UNCHANGED event
    /\ UNCHANGED chainVars

\* A signer that writes its bytes to the other Vec<u8> field, the payload.
AttachSignature_payload(s) ==
    /\ msg # None
    /\ msg' = Some([msg[1] EXCEPT !.payload = s])
    /\ call' = [op |-> "set_signature", arg |-> s, out |-> msg[1].signature]
    /\ UNCHANGED event
    /\ UNCHANGED chainVars

AttachSignature(s) ==
    /\ msg # None
    /\ msg' = Some([msg[1] EXCEPT !.signature = Some(s)])
    /\ call' = [op |-> "set_signature", arg |-> s, out |-> msg[1].signature]
    /\ UNCHANGED event
    /\ UNCHANGED chainVars

\* A write that enforces single assignment: a fee already set is kept.
AttachFee_once(f) ==
    /\ msg # None
    /\ msg' = IF msg[1].fee = None THEN Some([msg[1] EXCEPT !.fee = Some(f)]) ELSE msg
    /\ call' = [op |-> "set_fee", arg |-> f, out |-> msg[1].fee]
    /\ UNCHANGED event
    /\ UNCHANGED chainVars

AttachFee(f) ==
    /\ msg # None
    /\ msg' = Some([msg[1] EXCEPT !.fee = Some(f)])
    /\ call' = [op |-> "set_fee", arg |-> f, out |-> msg[1].fee]
    /\ UNCHANGED event
    /\ UNCHANGED chainVars

AttachMetadata(m) ==
    /\ msg # None
    /\ msg' = Some([msg[1] EXCEPT !.metadata = Some(m)])
    /\ call' = [op |-> "set_metadata", arg |-> m, out |-> msg[1].metadata]
    /\ UNCHANGED event
    /\ UNCHANGED chainVars

ReadId ==
    /\ msg # None
    /\ call' = [op |-> "id", arg |-> None, out |-> msg[1].id]
    /\ UNCHANGED <<msg, event>>
    /\ UNCHANGED chainVars

ReadPayload ==
    /\ msg # None
    /\ call' = [op |-> "payload", arg |-> None, out |-> msg[1].payload]
    /\ UNCHANGED <<msg, event>>
    /\ UNCHANGED chainVars

ReadChainSpecificData ==
    /\ msg # None
    /\ call' = [op |-> "chain_specific_data", arg |-> None, out |-> None]
    /\ UNCHANGED <<msg, event>>
    /\ UNCHANGED chainVars

Clone ==
    /\ msg # None
    /\ call' = [op |-> "clone", arg |-> None, out |-> msg[1]]
    /\ UNCHANGED <<msg, event>>
    /\ UNCHANGED chainVars

\* serde_json::to_string(&msg)
Serialize(order) ==
    /\ msg # None
    /\ call' = [op |-> "to_string", arg |-> None, out |-> SerFrostMessage(msg[1], order)]
    /\ UNCHANGED <<msg, event>>
    /\ UNCHANGED chainVars

\* Text from a peer that writes a chain as a number: the text just written,
\* with the field's value replaced by the number v.
ForeignChain(field, v) ==
    /\ call.op = "to_string"
    /\ call' = [op |-> "foreign", arg |-> None,
                out |-> JObj([call.out.v EXCEPT ![field] = JNum(Itoa(v))])]
    /\ UNCHANGED <<msg, event>>
    /\ UNCHANGED chainVars

\* serde_json::from_str::<FrostMessage>(&ser)
Deserialize ==
    /\ call.op \in {"to_string", "foreign"}
    /\ call' = [op |-> "from_str", arg |-> call.out, out |-> DeFrostMessage(call.out)]
    /\ UNCHANGED <<msg, event>>
    /\ UNCHANGED chainVars

\* MessageEvent { message: msg, tx_hash, block_number }: the envelope is
\* moved into the event.
BuildEvent(tx_hash, block_number) ==
    /\ msg # None
    /\ event' = Some([message |-> msg[1], tx_hash |-> tx_hash,
                      block_number |-> block_number])
    /\ msg' = None
    /\ call' = [op |-> "event", arg |-> None, out |-> None]
    /\ UNCHANGED chainVars

SerializeEvent(order) ==
    /\ event # None
    /\ call' = [op |-> "to_string_event", arg |-> None,
                out |-> SerMessageEvent(event[1], order)]
    /\ UNCHANGED <<msg, event>>
    /\ UNCHANGED chainVars

DeserializeEvent ==
    /\ call.op = "to_string_event"
    /\ call' = [op |-> "from_str_event", arg |-> call.out,
                out |-> DeMessageEvent(call.out)]
    /\ UNCHANGED <<msg, event>>
    /\ UNCHANGED chainVars

(***************************************************************************)
(* Inputs.                                                                 *)
(***************************************************************************)
Timestamp1725 == <<0, 0, 26321, 26944>>     \* 1_725_000_000, the test's timestamp

U64Samples == {Small(0, U64Limbs), Timestamp1725, U64_MAX}

MaxPayloadLen == 2
PayloadBytes == {0, 255}
Payloads == UNION {[1..n -> PayloadBytes] : n \in 0..MaxPayloadLen}

RandomSamples ==
    {[i \in 1..UuidLen |-> 0],
     [i \in 1..UuidLen |-> 255],
     [i \in 1..UuidLen |-> (i * 37 + 11) % 256]}

Routes == {<<"Ethereum", "Solana">>, <<"Polkadot", "Unknown">>,
           <<"Solana", "Ethereum">>, <<"Unknown", "Unknown">>}

Proofs == {[data |-> <<1, 2>>, metadata |-> "groth16"],
           [data |-> <<>>, metadata |-> "plonk"]}
Signatures == {<<>>, <<9, 255>>}
Fees == {Small(0, U128Limbs), U128_MAX}

KeyA == <<"a">>
KeyB == <<"b", "c">>
ValX == <<"x">>
ValY == <<>>
EmptyMap == [k \in {} |-> ValX]
MapA == [k \in {KeyA} |-> ValX]
MapAB == [k \in {KeyA, KeyB} |-> IF k = KeyA THEN ValY ELSE ValX]
Metadatas == {EmptyMap, MapA, MapAB}

TxHashes == {None, Some(<<>>)}
BlockNumbers == {None, Some(Small(0, U64Limbs)), Some(U64_MAX)}

\* <<payload, nonce, timestamp, random bytes>>
Builds ==
    {<<<<>>, U64_MAX, Small(0, U64Limbs), [i \in 1..UuidLen |-> 255]>>,
     <<<<116, 255>>, Small(1, U64Limbs), Timestamp1725,
       [i \in 1..UuidLen |-> (i * 37 + 11) % 256]>>}

NewSampled ==
    \E r \in Routes, b \in Builds : New(r[1], r[2], b[1], b[2], b[3], b[4])

NewAny ==
    \E f \in ChainId, t \in ChainId, p \in Payloads,
       n \in U64Samples, ts \in U64Samples, rb \in RandomSamples :
        New(f, t, p, n, ts, rb)

Attach ==
    \/ \E p \in Proofs : AttachProof(p)
    \/ \E s \in Signatures : AttachSignature(s)
    \/ \E f \in Fees : AttachFee(f)
    \/ \E m \in Metadatas : AttachMetadata(m)

Read ==
    \/ ReadId
    \/ ReadPayload
    \/ ReadChainSpecificData

SerializeAny ==
    /\ msg # None
    /\ \E order \in MapOrders(msg[1].metadata) : Serialize(order)

SerializeEventAny ==
    /\ event # None
    /\ \E order \in MapOrders(event[1].message.metadata) : SerializeEvent(order)

\* The envelope's life in the pipeline that owns it.
Next ==
    \/ NewSampled
    \/ Attach
    \/ Read
    \/ Clone
    \/ SerializeAny

Spec == Init /\ [][Next]_vars

\* Construction, over every combination of arguments.
NextNew ==
    \/ NewAny
    \/ Read
    \/ Clone

SpecNew == Init /\ [][NextNew]_vars

\* Transmission: the envelope is written and read back.
NextWire ==
    \/ NewSampled
    \/ Attach
    \/ SerializeAny
    \/ Deserialize

SpecWire == Init /\ [][NextWire]_vars

\* Reception of text written by a peer that encodes chains as numbers.
ForeignValues == {Small(0, U64Limbs), Small(2, U64Limbs), Small(3, U64Limbs),
                  <<0, 0, 1, 0>>, U64_MAX}

NextForeign ==
    \/ NewSampled
    \/ SerializeAny
    \/ \E f \in {"from_chain", "to_chain"}, v \in ForeignValues : ForeignChain(f, v)
    \/ Deserialize

SpecForeign == Init /\ [][NextForeign]_vars

\* Observation: the envelope is moved into an event, which is written and
\* read back.
NextEvent ==
    \/ NewSampled
    \/ Attach
    \/ \E tx \in TxHashes, bn \in BlockNumbers : BuildEvent(tx, bn)
    \/ SerializeEventAny
    \/ DeserializeEvent

SpecEvent == Init /\ [][NextEvent]_vars

(***************************************************************************)
(* Claims about the numeric conversions, under SpecChain.                  *)
(***************************************************************************)
KnownNumerals == {<<0>>, <<1>>, <<2>>}
U64MaxDigits == <<1,8,4,4,6,7,4,4,0,7,3,7,0,9,5,5,1,6,1,5>>

\* C3: ChainId::try_from is total: for every 64-bit value it returns Ok, and
\* for every value other than 0, 1 and 2 the decoded chain is Unknown.
C3_TryFromTotal ==
    vin # None =>
        /\ vres[1].ok
        /\ vres[1].val \in ChainId
        /\ (Itoa(vin[1]) \notin KnownNumerals => vres[1].val = "Unknown")

\* A value above 2^16 and below u64::MAX, whose low 16 bits are 1, was decoded.
C3_Witness ==
    /\ vin = Some(<<0, 0, 3, 1>>)
    /\ vres = Some(Ok("Unknown"))

\* C4: decoding the numeric encoding of a chain gives the chain back:
\* ChainId::try_from(c.to_u64()) = Ok(c).
C4_EncodeDecode ==
    (cin # None /\ vres # None) => vres[1] = Ok(cin[1])

\* Solana was encoded and the encoding decoded.
C4_Witness ==
    /\ cin = Some("Solana")
    /\ vin = cnum
    /\ vres = Some(Ok("Solana"))

\* C5: to_u64 maps Ethereum to 0, Polkadot to 1, Solana to 2 and Unknown to
\* u64::MAX = 18446744073709551615; distinct variants get distinct numbers,
\* and decoding u64::MAX yields Unknown.
C5_ToU64Mapping ==
    /\ cin # None =>
          Itoa(cnum[1]) = (CASE cin[1] = "Ethereum" -> <<0>>
                             [] cin[1] = "Polkadot" -> <<1>>
                             [] cin[1] = "Solana"   -> <<2>>
                             [] cin[1] = "Unknown"  -> U64MaxDigits)
    /\ \A c1, c2 \in ChainId : c1 # c2 => to_u64(c1) # to_u64(c2)
    /\ (vin # None /\ Itoa(vin[1]) = U64MaxDigits) => vres[1] = Ok("Unknown")

\* Unknown was encoded, as u64::MAX, and that number decoded.
C5_Witness ==
    /\ cin = Some("Unknown")
    /\ Itoa(cnum[1]) = U64MaxDigits
    /\ vin = cnum
    /\ vres = Some(Ok("Unknown"))

(***************************************************************************)
(* Claims about the envelope.                                              *)
(***************************************************************************)

\* An id produced by Uuid::new_v4 carries the version nibble, so it is not
\* the nil id whatever the random bytes were.
IdNeverNil == msg # None => msg[1].id # NilUuid

\* C7: FrostMessage::new never fails, and the envelope it returns has
\* from_chain, to_chain, payload, nonce and timestamp equal to the arguments
\* and proof, signature, fee and metadata absent (checked under SpecNew).
C7_NewTotal ==
    call.op = "new" =>
        /\ msg # None
        /\ msg[1].from_chain = call.arg[1]
        /\ msg[1].to_chain = call.arg[2]
        /\ msg[1].payload = call.arg[3]
        /\ msg[1].nonce = call.arg[4]
        /\ msg[1].timestamp = call.arg[5]
        /\ msg[1].proof = None
        /\ msg[1].signature = None
        /\ msg[1].fee = None
        /\ msg[1].metadata = None

\* new was called with the same Unknown chain on both ends, an empty payload,
\* the largest nonce and timestamp 0.
C7_Witness ==
    /\ call.op = "new"
    /\ call.arg = <<"Unknown", "Unknown", <<>>, U64_MAX, Small(0, U64Limbs)>>
    /\ msg # None
    /\ msg[1].nonce = U64_MAX

SameIdentity(a, b) ==
    /\ a.id = b.id
    /\ a.from_chain = b.from_chain
    /\ a.to_chain = b.to_chain
    /\ a.payload = b.payload
    /\ a.timestamp = b.timestamp
    /\ a.nonce = b.nonce

\* C9: once constructed, an envelope's id, from_chain, to_chain, payload,
\* timestamp and nonce are the same after every operation on it (attaching
\* proof, signature, fee or metadata, the accessors, clone, serialization).
C9_IdentityFrozen ==
    [][(msg # None /\ msg' # None) => SameIdentity(msg[1], msg'[1])]_vars

\* All four optional fields were attached and the envelope then serialized.
C9_Witness ==
    /\ call.op = "to_string"
    /\ msg # None
    /\ msg[1].proof # None
    /\ msg[1].signature # None
    /\ msg[1].fee # None
    /\ msg[1].metadata # None

\* C10: attaching proof, signature, fee or metadata is accepted whether or
\* not the field is already set, the field then holds the value attached
\* last, and the other three optional fields are unchanged.
C10_LastAttachWins ==
    [][/\ call'.op = "set_proof" =>
            /\ msg' # None
            /\ msg'[1].proof = Some(call'.arg)
            /\ msg'[1].signature = msg[1].signature
            /\ msg'[1].fee = msg[1].fee
            /\ msg'[1].metadata = msg[1].metadata
       /\ call'.op = "set_signature" =>
            /\ msg' # None
            /\ msg'[1].signature = Some(call'.arg)
            /\ msg'[1].proof = msg[1].proof
            /\ msg'[1].fee = msg[1].fee
            /\ msg'[1].metadata = msg[1].metadata
       /\ call'.op = "set_fee" =>
            /\ msg' # None
            /\ msg'[1].fee = Some(call'.arg)
            /\ msg'[1].proof = msg[1].proof
            /\ msg'[1].signature = msg[1].signature
            /\ msg'[1].metadata = msg[1].metadata
       /\ call'.op = "set_metadata" =>
            /\ msg' # None
            /\ msg'[1].metadata = Some(call'.arg)
            /\ msg'[1].proof = msg[1].proof
            /\ msg'[1].signature = msg[1].signature
            /\ msg'[1].fee = msg[1].fee
      ]_vars

\* A fee was attached over a different fee attached earlier, with a proof,
\* a signature and metadata already in place.
C10_Witness ==
    /\ call.op = "set_fee"
    /\ call.out # None
    /\ call.out # Some(call.arg)
    /\ msg[1].fee = Some(call.arg)
    /\ msg[1].proof # None
    /\ msg[1].signature # None
    /\ msg[1].metadata # None

\* C1: deserializing the serialization of an envelope succeeds and yields an
\* envelope equal to the original in every field, whichever optional fields
\* are present; an absent field comes back absent and the id is the same
\* (checked under SpecWire).
C1_RoundTrip ==
    call.op = "from_str" =>
        /\ call.out.ok
        /\ call.out.val.id = msg[1].id
        /\ call.out.val.from_chain = msg[1].from_chain
        /\ call.out.val.to_chain = msg[1].to_chain
        /\ call.out.val.payload = msg[1].payload
        /\ call.out.val.proof = msg[1].proof
        /\ call.out.val.timestamp = msg[1].timestamp
        /\ call.out.val.nonce = msg[1].nonce
        /\ call.out.val.signature = msg[1].signature
        /\ call.out.val.fee = msg[1].fee
        /\ call.out.val.metadata = msg[1].metadata

\* An envelope with a proof, an empty signature, the largest fee and a
\* two-entry metadata map went through the wire.
C1_Witness ==
    /\ call.op = "from_str"
    /\ call.out.ok
    /\ msg[1].proof # None
    /\ msg[1].signature = Some(<<>>)
    /\ msg[1].fee = Some(U128_MAX)
    /\ msg[1].metadata = Some(MapAB)
    /\ call.out.val.fee = Some(U128_MAX)
    /\ call.out.val.metadata = Some(MapAB)

IsUnknownNumeral(j) == j.t = "num" /\ j.v \notin KnownNumerals

\* C6: when the text read carries a number that is not a known chain in
\* from_chain or to_chain, deserialization succeeds and the field is Unknown
\* (checked under SpecForeign).
C6_ForeignChainIsUnknown ==
    call.op = "from_str" =>
        /\ IsUnknownNumeral(call.arg.v.from_chain) =>
              (call.out.ok /\ call.out.val.from_chain = "Unknown")
        /\ IsUnknownNumeral(call.arg.v.to_chain) =>
              (call.out.ok /\ call.out.val.to_chain = "Unknown")

\* C8: an event built with tx_hash and block_number absent comes back from
\* the wire with both absent and with an envelope equal to the original
\* (checked under SpecEvent).
C8_EventRoundTrip ==
    (/\ call.op = "from_str_event"
     /\ event[1].tx_hash = None
     /\ event[1].block_number = None) =>
        /\ call.out.ok
        /\ call.out.val.tx_hash = None
        /\ call.out.val.block_number = None
        /\ call.out.val.message = event[1].message

\* An event without tx_hash and block_number, around an envelope carrying a
\* proof and metadata, went through the wire.
C8_Witness ==
    /\ call.op = "from_str_event"
    /\ event[1].tx_hash = None
    /\ event[1].block_number = None
    /\ event[1].message.proof # None
    /\ event[1].message.metadata = Some(MapAB)
    /\ call.out.ok
    /\ call.out.val.tx_hash = None
====
